---- MODULE Spec2Model ----
(***************************************************************************)
(* soranks: Stack Overflow rankings by location.                           *)
(*                                                                         *)
(* The repository holds two builds of the same driver:                     *)
(*   "main" : src/main.go             (monolithic; MaxPages = 1,           *)
(*                                     MinReputation = 400)                *)
(*   "cmd"  : src/unnamed/part_000    (uses package lib; MaxPages = 1100,  *)
(*                                     MinReputation = 500, publish flag)  *)
(* Both run the page loop / retry counter / rank filter modelled below.    *)
(* GetUserInfo, StreamFile, DumpJson and DumpMarkdown are taken from        *)
(* src/main.go; the "cmd" build calls them through package lib and passes  *)
(* MinReputation to GetUserInfo as an argument.                            *)
(* A behaviour of the model is one run of one build.                       *)
(***************************************************************************)
EXTENDS Integers, Sequences, FiniteSets, TLC

\* ---------------------------------------------------------------- bounds
\* longest page (number of user records) the source reader delivers
MaxItems == 2
\* largest value given to the -limit flag
MaxLimit == 2
\* page maximum of the "cmd" build: stands for MaxPages = 1100
MaxPagesCmd == 3

\* ------------------------------------------------------- program constants
MaxErrors == 3

MinReputation(p) == IF p = "main" THEN 400 ELSE 500

MaxPages(p) == IF p = "main" THEN 1 ELSE MaxPagesCmd

\* ------------------------------------------------------------- data model
\* reputations a record may carry: below and above the threshold
Reps == {300, 600}

\* a user record: its reputation and whether its location matches the
\* compiled (?i)location pattern
SOUser == [Reputation : Reps, Location : BOOLEAN]

ItemSeqs(lo) == UNION {[1..n -> SOUser] : n \in lo..MaxItems}

\* *SOUsers: nil, or a decoded page
NilUsers == [nil |-> TRUE, Items |-> <<>>, HasMore |-> FALSE]

SOUsers(lo) == [nil : {FALSE}, Items : ItemSeqs(lo), HasMore : BOOLEAN]

\* slip: the rank is taken zero-based
RankOfZeroBased(c) == c - 1

\* Rank: *counter
RankOf(c) == c

SOUserRank(c, user) == [Rank |-> RankOf(c), Reputation |-> user.Reputation]

VARIABLES
  prog,          \* which build runs: "main" or "cmd"
  jsonfile,      \* -json given (file mode)
  limit,         \* -limit
  mdrsp,         \* -mdrsp given
  jsonrsp,       \* -jsonrsp given
  publish,       \* -publish given (cmd build only)
  pc,            \* position of main()
  stop, streamErrors, currentPage, lastPage, counter,
  users,         \* the users variable GetUserInfo is called with
  ranks,
  key,
  repLimit,      \* result of the last GetUserInfo call
  exitCode,      \* -1 while running; 0, 5, or 2 (panic)
  jsonWritten, mdWritten, published,
  \* history of the run
  fetched,       \* page returned by the last successful StreamHTTP
  okFetches,     \* number of successful non-empty fetches
  failures,      \* number of fetches that erred or returned zero items
  attempt,       \* last fetch attempt: page requested, key looked up before it
  lookups,       \* number of GetKey calls
  scans,         \* number of GetUserInfo calls that ran
  scanned,       \* page the last GetUserInfo call ran on
  visited,       \* records the last GetUserInfo call visited
  qualifying,    \* qualifying records in all pages GetUserInfo ran on
  reachable,     \* of these, the ones before their page's first
                 \* below-threshold record
  ideal,         \* every fetch so far succeeded with has_more, filter continued
  ending         \* how the page loop ended

vars == <<prog, jsonfile, limit, mdrsp, jsonrsp, publish, pc, stop,
          streamErrors, currentPage, lastPage, counter, users, ranks, key,
          repLimit, exitCode, jsonWritten, mdWritten, published, fetched,
          okFetches, failures, attempt, lookups, scans, scanned, visited,
          qualifying, reachable, ideal, ending>>

flags == <<prog, jsonfile, limit, mdrsp, jsonrsp, publish>>
outputs == <<jsonWritten, mdWritten, published>>
loopVars == <<stop, streamErrors, currentPage, lastPage, counter, users, ranks,
              key, repLimit>>
history == <<fetched, okFetches, failures, attempt, lookups, scans, scanned,
             visited, qualifying, reachable, ideal>>

\* ------------------------------------------------------------ Rank Filter
\* slip: the threshold test never fires
BelowMinNever(user, minRep) == user.Reputation < 0

BelowMin(user, minRep) == user.Reputation < minRep

\* slip: the limit is tested with > instead of >=
LimitReachedLate(c, lim) == c > lim /\ lim # 0

LimitReached(c, lim) == c >= lim /\ lim # 0

IncCounter(c) == c + 1

\* GetUserInfo: the range loop from item i on; returns the signal, the
\* counter, the ranks and the number of records visited
RECURSIVE GetUserInfoFrom(_, _, _, _, _, _)
GetUserInfoFrom(items, i, minRep, c, lim, rs) ==
  IF i > Len(items)
    THEN [rep |-> TRUE, counter |-> c, ranks |-> rs, visited |-> Len(items)]
  ELSE IF BelowMin(items[i], minRep)
    THEN [rep |-> FALSE, counter |-> c, ranks |-> rs, visited |-> i]
  ELSE IF items[i].Location
    THEN LET c1 == IncCounter(c)
             rs1 == Append(rs, SOUserRank(c1, items[i]))
         IN IF LimitReached(c1, lim)
              THEN [rep |-> FALSE, counter |-> c1, ranks |-> rs1, visited |-> i]
              ELSE GetUserInfoFrom(items, i + 1, minRep, c1, lim, rs1)
  ELSE GetUserInfoFrom(items, i + 1, minRep, c, lim, rs)

GetUserInfo(u, minRep, c, lim, rs) ==
  GetUserInfoFrom(u.Items, 1, minRep, c, lim, rs)

\* ----------------------------------------------------------------- driver
\* slip: the flag conflict is tested the wrong way round
PublishConflictInverted(pub, md) == pub /\ md

PublishConflict(pub, md) == pub /\ ~md

\* slip: the key is looked up before every fetch
KeyRefreshAlways(lp, cp) == TRUE

KeyRefresh(lp, cp) == lp = cp

\* slip: the retry ceiling is tested with > instead of >=
RetryExhaustedLate(n) == n > MaxErrors

RetryExhausted(n) == n >= MaxErrors

IncErrors(n) == n + 1

PageMaxReached(cp, p) == cp >= MaxPages(p) /\ MaxPages(p) # 0

\* slip: the empty-result test never fires
NoResultsNever(c) == c < 0

NoResults(c) == c = 0

\* index of the first record below the threshold, 0 if none
FirstBelow(items, minRep) ==
  IF \E i \in 1..Len(items) : items[i].Reputation < minRep
    THEN CHOOSE i \in 1..Len(items) :
           /\ items[i].Reputation < minRep
           /\ \A j \in 1..(i - 1) : items[j].Reputation >= minRep
    ELSE 0

Qualifies(user, minRep) == user.Reputation >= minRep /\ user.Location

QualifyingIn(items, minRep) ==
  Cardinality({i \in 1..Len(items) : Qualifies(items[i], minRep)})

ReachableIn(items, minRep) ==
  LET fb == FirstBelow(items, minRep)
      last == IF fb = 0 THEN Len(items) ELSE fb - 1
  IN Cardinality({i \in 1..last : Qualifies(items[i], minRep)})

Init ==
  /\ prog \in {"main", "cmd"}
  /\ jsonfile \in BOOLEAN
  /\ limit \in 0..MaxLimit
  /\ mdrsp \in BOOLEAN
  /\ jsonrsp \in BOOLEAN
  /\ publish \in (IF prog = "cmd" THEN BOOLEAN ELSE {FALSE})
  /\ pc = "start"
  /\ stop = FALSE
  /\ streamErrors = 0
  /\ currentPage = 1
  /\ lastPage = 1
  /\ counter = 0
  /\ users = NilUsers
  /\ ranks = <<>>
  /\ key = ""
  /\ repLimit = TRUE
  /\ exitCode = -1
  /\ jsonWritten = FALSE
  /\ mdWritten = FALSE
  /\ published = FALSE
  /\ fetched = NilUsers
  /\ okFetches = 0
  /\ failures = 0
  /\ attempt = [page |-> 0, looked |-> FALSE]
  /\ lookups = 0
  /\ scans = 0
  /\ scanned = NilUsers
  /\ visited = 0
  /\ qualifying = 0
  /\ reachable = 0
  /\ ideal = TRUE
  /\ ending = "running"

Exit(code, how) ==
  /\ pc' = "exited"
  /\ exitCode' = code
  /\ ending' = IF ending = "running" THEN how ELSE ending

\* the publish/mdrsp check (cmd build); main.go goes straight to the loop
CheckFlags ==
  /\ pc = "start"
  /\ IF prog = "cmd" /\ PublishConflict(publish, mdrsp)
       THEN Exit(5, "conflict")
       ELSE pc' = "loop" /\ UNCHANGED <<exitCode, ending>>
  /\ UNCHANGED <<flags, outputs, loopVars, history>>

\* HTTP mode, head of an iteration: the key is looked up when
\* lastPage == currentPage
KeyStep ==
  /\ pc = "loop"
  /\ ~jsonfile
  /\ LET refresh == KeyRefresh(lastPage, currentPage) IN
       /\ IF refresh
            THEN \E found \in BOOLEAN :
                   key' = IF prog = "main"
                            THEN (IF found THEN "&key=K" ELSE "")
                            ELSE (IF found THEN "&key=K" ELSE "&key=")
            ELSE key' = IF prog = "main" THEN "" ELSE key
       /\ lookups' = IF refresh THEN lookups + 1 ELSE lookups
       /\ attempt' = [page |-> currentPage, looked |-> refresh]
  /\ pc' = "fetch"
  /\ UNCHANGED <<flags, outputs, stop, streamErrors, currentPage, lastPage,
                 counter, users, ranks, repLimit, exitCode, fetched, okFetches,
                 failures, scans, scanned, visited, qualifying, reachable, ideal,
                 ending>>

\* StreamHTTP returned no error and at least one item
StreamOK ==
  /\ pc = "fetch"
  /\ \E page \in SOUsers(1) :
       /\ fetched' = page
       \* main.go: "users, err := StreamHTTP(...)" declares a new users in
       \* the block; the users of main() keeps its value
       /\ users' = IF prog = "main" THEN users ELSE page
       /\ ideal' = (ideal /\ page.HasMore)
  /\ okFetches' = okFetches + 1
  /\ pc' = "filter"
  /\ UNCHANGED <<flags, outputs, stop, streamErrors, currentPage, lastPage,
                 counter, ranks, key, repLimit, exitCode, failures, attempt,
                 lookups, scans, scanned, visited, qualifying, reachable, ending>>

\* StreamHTTP erred or returned zero items
StreamFail ==
  /\ pc = "fetch"
  /\ streamErrors' = IncErrors(streamErrors)
  /\ failures' = failures + 1
  /\ ideal' = FALSE
  /\ IF RetryExhausted(streamErrors')
       THEN Exit(5, "retry")
       ELSE pc' = "loop" /\ UNCHANGED <<exitCode, ending>>
  /\ UNCHANGED <<flags, outputs, stop, currentPage, lastPage, counter, users,
                 ranks, key, repLimit, fetched, okFetches, attempt, lookups,
                 scans, scanned, visited, qualifying, reachable>>

\* file mode: StreamFile, then stop = true
ReadFile ==
  /\ pc = "loop"
  /\ jsonfile
  /\ \/ /\ \E page \in SOUsers(0) : users' = page
        /\ stop' = TRUE
        /\ pc' = "filter"
        /\ UNCHANGED <<exitCode, ending>>
     \/ /\ Exit(5, "decode")
        /\ UNCHANGED <<users, stop>>
  /\ UNCHANGED <<flags, outputs, streamErrors, currentPage, lastPage, counter,
                 ranks, key, repLimit, history>>

\* repLimit := GetUserInfo(users, ...); break when it is false
Filter ==
  /\ pc = "filter"
  /\ IF users.nil
       THEN \* users.Items on a nil *SOUsers: run-time panic
            /\ Exit(2, "panic")
            /\ ideal' = FALSE
            /\ UNCHANGED <<counter, ranks, repLimit, scans, scanned, visited,
                           qualifying, reachable>>
       ELSE LET r == GetUserInfo(users, MinReputation(prog), counter, limit,
                                 ranks)
            IN /\ counter' = r.counter
               /\ ranks' = r.ranks
               /\ repLimit' = r.rep
               /\ visited' = r.visited
               /\ scans' = scans + 1
               /\ scanned' = users
               /\ qualifying' = qualifying
                                 + QualifyingIn(users.Items, MinReputation(prog))
               /\ reachable' = reachable
                                 + ReachableIn(users.Items, MinReputation(prog))
               /\ ideal' = (ideal /\ r.rep)
               /\ pc' = IF r.rep THEN "advance" ELSE "report"
               /\ ending' = IF r.rep THEN ending ELSE "filter"
               /\ UNCHANGED exitCode
  /\ UNCHANGED <<flags, outputs, stop, streamErrors, currentPage, lastPage,
                 users, key, fetched, okFetches, failures, attempt, lookups>>

\* lastPage = currentPage; currentPage += 1; the three break conditions
Advance ==
  /\ pc = "advance"
  /\ lastPage' = currentPage
  /\ currentPage' = currentPage + 1
  /\ IF PageMaxReached(currentPage', prog) \/ ~users.HasMore \/ stop
       THEN /\ pc' = "report"
            /\ ending' = IF stop THEN "stop"
                         ELSE IF ~users.HasMore THEN "hasmore"
                         ELSE "maxpages"
       ELSE pc' = "loop" /\ UNCHANGED ending
  /\ UNCHANGED <<flags, outputs, stop, streamErrors, counter, users, ranks,
                 key, repLimit, exitCode, history>>

\* after the loop: "No results found." exits 0
Report ==
  /\ pc = "report"
  /\ IF NoResults(counter)
       THEN Exit(0, ending)
       ELSE pc' = "out1" /\ UNCHANGED <<exitCode, ending>>
  /\ UNCHANGED <<flags, outputs, loopVars, history>>

AfterOutput == IF pc = "out1" THEN "out2" ELSE "finish"

\* DumpJson when -jsonrsp is given; os.Create failing panics
DumpJson ==
  /\ \/ prog = "main" /\ pc = "out2"
     \/ prog = "cmd" /\ pc = "out1"
  /\ IF jsonrsp
       THEN \/ /\ jsonWritten' = TRUE
               /\ pc' = AfterOutput
               /\ UNCHANGED <<exitCode, ending>>
            \/ /\ Exit(2, ending)
               /\ UNCHANGED jsonWritten
       ELSE /\ pc' = AfterOutput
            /\ UNCHANGED <<jsonWritten, exitCode, ending>>
  /\ UNCHANGED <<flags, mdWritten, published, loopVars, history>>

\* DumpMarkdown when -mdrsp is given, then (cmd) GitHubConnector when
\* -publish is given, its error ignored
DumpMarkdown ==
  /\ \/ prog = "main" /\ pc = "out1"
     \/ prog = "cmd" /\ pc = "out2"
  /\ IF mdrsp
       THEN \/ /\ mdWritten' = TRUE
               /\ IF prog = "cmd" /\ publish
                    THEN published' \in BOOLEAN
                    ELSE UNCHANGED published
               /\ pc' = AfterOutput
               /\ UNCHANGED <<exitCode, ending>>
            \/ /\ Exit(2, ending)
               /\ UNCHANGED <<mdWritten, published>>
       ELSE /\ pc' = AfterOutput
            /\ UNCHANGED <<mdWritten, published, exitCode, ending>>
  /\ UNCHANGED <<flags, jsonWritten, loopVars, history>>

\* main returns
Finish ==
  /\ pc = "finish"
  /\ Exit(0, ending)
  /\ UNCHANGED <<flags, outputs, loopVars, history>>

Next ==
  \/ CheckFlags
  \/ KeyStep
  \/ StreamOK
  \/ StreamFail
  \/ ReadFile
  \/ Filter
  \/ Advance
  \/ Report
  \/ DumpJson
  \/ DumpMarkdown
  \/ Finish

Spec == Init /\ [][Next]_vars

\* the program is sequential and keeps running until it exits
FairSpec == Spec /\ WF_vars(Next)

\* ------------------------------------------------------ derived predicates
NoOutput == ~jsonWritten /\ ~mdWritten /\ ~published

\* the ways the page loop is left by a break statement
LoopBreaks == {"filter", "maxpages", "hasmore", "stop"}

LoopOver == pc \in {"report", "out1", "out2", "finish", "exited"}

LastRank == IF ranks = <<>> THEN 0 ELSE ranks[Len(ranks)].Rank

\* the last GetUserInfo call came upon a record below the threshold
MetBelow ==
  LET fb == FirstBelow(scanned.Items, MinReputation(prog))
  IN scans > 0 /\ fb # 0 /\ visited >= fb

\* ------------------------------------------------------------------ claims

\* C1 (as stated): with limit = N > 0 the Result List never holds more than
\* N entries, and at the end of the run its final entry has rank N if and
\* only if at least N qualifying records (reputation >= MinReputation,
\* location matching) existed across all the pages the filter processed.
C1_LimitIffQualifying ==
  limit > 0 =>
    /\ Len(ranks) <= limit
    /\ pc = "exited" => ((LastRank = limit) <=> (qualifying >= limit))

\* C1 (amended): with limit = N > 0 the Result List never holds more than N
\* entries, and at the end of the run its final entry has rank N if and only
\* if at least N qualifying records lie, in the pages the filter processed,
\* before the first record of their page whose reputation is below
\* MinReputation.
C1_LimitIffReachable ==
  limit > 0 =>
    /\ Len(ranks) <= limit
    /\ pc = "exited" => ((LastRank = limit) <=> (reachable >= limit))

\* C1 witness: a run that ended with the limit reached on its second page
C1_Witness ==
  /\ pc = "exited"
  /\ limit = MaxLimit
  /\ LastRank = limit
  /\ scans = 2
  /\ reachable > limit

\* C2: once the filter comes upon the first record below MinReputation it
\* visits no later record of the page, signals "do not continue", the loop
\* is over, and from then on nothing is fetched, filtered or appended.
C2_BelowMinEndsRun ==
  /\ [](MetBelow =>
          /\ visited = FirstBelow(scanned.Items, MinReputation(prog))
          /\ repLimit = FALSE
          /\ LoopOver
          /\ ending = "filter")
  /\ [][MetBelow =>
          /\ ranks' = ranks
          /\ counter' = counter
          /\ okFetches' = okFetches
          /\ failures' = failures
          /\ attempt' = attempt
          /\ scans' = scans
          /\ scanned' = scanned]_vars

\* C2 witness: the second page of an HTTP run is in non-increasing order,
\* starts below the threshold, has a later record and has_more set
C2_Witness ==
  /\ MetBelow
  /\ pc = "exited"
  /\ ~jsonfile
  /\ scans = 2
  /\ scanned.HasMore
  /\ Len(scanned.Items) > visited
  /\ \A i \in 1..(Len(scanned.Items) - 1) :
       scanned.Items[i].Reputation >= scanned.Items[i + 1].Reputation

\* C3: the ranks of the Result List are 1, 2, ..., k in insertion order, the
\* accepted counter is k, and the list is only ever appended to.
C3_RanksDense ==
  /\ [](/\ \A i \in 1..Len(ranks) : ranks[i].Rank = i
        /\ counter = Len(ranks))
  /\ [][/\ Len(ranks') >= Len(ranks)
        /\ SubSeq(ranks', 1, Len(ranks)) = ranks]_vars

\* C3 witness: three entries accepted over two pages
C3_Witness ==
  /\ Len(ranks) = 3
  /\ scans = 2
  /\ ranks[3].Rank = 3

\* C4: in HTTP mode the third failed fetch of the run exits with code 5 and
\* no output file is written; an earlier failed fetch goes back to the head
\* of the loop with the page cursor, the counter and the Result List
\* unchanged, and the next request is for the page cursor's page.
C4_RetryExhaustion ==
  /\ [](~jsonfile =>
          /\ failures <= MaxErrors
          /\ failures = MaxErrors =>
               (pc = "exited" /\ exitCode = 5 /\ NoOutput)
          /\ (exitCode = 5 /\ ~PublishConflict(publish, mdrsp)) =>
               failures = MaxErrors
          /\ pc = "fetch" => attempt.page = currentPage)
  /\ [][failures' # failures =>
          /\ failures' = failures + 1
          /\ currentPage' = currentPage
          /\ lastPage' = lastPage
          /\ counter' = counter
          /\ ranks' = ranks
          /\ failures' < MaxErrors => pc' = "loop"]_vars

\* C4 witness: the third failure comes after a page had accepted entries and
\* both output files were asked for
C4_Witness ==
  /\ exitCode = 5
  /\ failures = MaxErrors
  /\ okFetches > 0
  /\ counter > 0
  /\ mdrsp
  /\ jsonrsp
  /\ NoOutput

\* C5: with publish set and mdrsp empty the process exits with code 5
\* before any key lookup, fetch, file read, filter call or output.
C5_PublishNeedsMdrsp ==
  (publish /\ ~mdrsp) =>
    /\ pc \in {"start", "exited"}
    /\ pc = "exited" => exitCode = 5
    /\ lookups = 0
    /\ attempt.page = 0
    /\ okFetches = 0
    /\ failures = 0
    /\ users.nil
    /\ scans = 0
    /\ NoOutput

\* C5 witness: the conflict exit, with a JSON response file asked for
C5_Witness ==
  /\ publish
  /\ ~mdrsp
  /\ jsonrsp
  /\ exitCode = 5

\* C6: when the page loop ends by a break with zero accepted entries the
\* process can only exit with code 0, and no JSON file, no Markdown file
\* and no publication is made, whatever the output flags.
C6_NoResultsNoOutput ==
  (ending \in LoopBreaks /\ counter = 0) =>
    /\ NoOutput
    /\ pc \in {"report", "exited"}
    /\ pc = "exited" => exitCode = 0

\* C6 witness: all output flags set, loop left at the page maximum
C6_Witness ==
  /\ pc = "exited"
  /\ exitCode = 0
  /\ counter = 0
  /\ ending = "maxpages"
  /\ mdrsp
  /\ jsonrsp
  /\ publish

\* C7: the loop always ends by a break condition, by the retry-exhaustion
\* exit or within the single file-mode pass (a run stopped by the flag check
\* never enters the loop).
C7_LoopEndsAsListed ==
  pc = "exited" => ending \in LoopBreaks \cup {"retry", "decode", "conflict"}

\* the process always comes to an end
Termination == <>(pc = "exited")

\* C8: in HTTP mode the filter is called with the page the fetch returned.
C8_FilterGetsFetchedPage ==
  (~jsonfile /\ pc = "filter") => users = fetched

\* C9 (as stated): the key is looked up exactly once per run, before the
\* first fetch, and never for a later fetch, be it a retry or a later page.
C9_KeyLookedUpOnce ==
  (~jsonfile /\ attempt.page # 0) => lookups = 1

\* C9 (amended): the key is looked up before a fetch exactly when
\* lastPage == currentPage, which is before every request for page 1 (the
\* first one and each retry of it) and before no request for a later page.
C9_KeyLookedUpForPageOne ==
  /\ [](attempt.page # 0 => (attempt.looked <=> attempt.page = 1))
  /\ [][(pc = "loop" /\ pc' = "fetch") =>
          /\ attempt'.page = currentPage
          /\ attempt'.looked <=> (lastPage = currentPage)
          /\ lookups' = IF attempt'.page = 1 THEN lookups + 1 ELSE lookups]_vars

\* C9 witness: page 1 was requested twice, then page 2
C9_Witness ==
  /\ pc = "fetch"
  /\ attempt.page = 2
  /\ ~attempt.looked
  /\ lookups = 2
  /\ failures = 1

\* C10: an HTTP run in which every fetch succeeds with has_more set and the
\* filter always signals "continue" fetches and filters exactly the pages
\* 1..MaxPages.
C10_PagesUpToMaximum ==
  (~jsonfile /\ ideal /\ ending \in LoopBreaks) =>
    /\ okFetches = MaxPages(prog)
    /\ scans = MaxPages(prog)
    /\ attempt.page = MaxPages(prog)

TypeOK ==
  /\ pc \in {"start", "loop", "fetch", "filter", "advance", "report", "out1",
             "out2", "finish", "exited"}
  /\ exitCode \in {-1, 0, 2, 5}
  /\ (pc = "exited") <=> (exitCode # -1)
====
